---- MODULE Spec2Model ----
(***************************************************************************)
(* Drowsiness detector (src/detector.py): start-up, the frame loop with    *)
(* its per-face counter/alarm update, the alarm sound commands and the     *)
(* cleanup, as a state machine.                                            *)
(*                                                                         *)
(* EAR values are floats in the source; they are modelled in hundredths    *)
(* (0.25 is 25), which keeps the only thing the loop does with them, the   *)
(* strict comparison against EYE_AR_THRESH, exact.                         *)
(***************************************************************************)
EXTENDS Integers, Sequences, FiniteSets, TLC

\* ---------------------------------------------------------------- constants

\* detector.py:32  EYE_AR_THRESH = 0.25, in hundredths
EYE_AR_THRESH == 25
\* detector.py:34
EYE_AR_CONSEC_FRAMES == 35

\* ------------------------------------------------------------------- bounds

\* frame_counter is unbounded in the source; the model stops counting here
MaxCounter == 37
\* most faces the detector returns for one frame
MaxFaces == 2

\* EAR values a face can show: just below the threshold and exactly at it.
\* The loop only ever compares an EAR with `< EYE_AR_THRESH`, so a value above
\* the threshold takes the same branch as the value at it.
EARValues == {EYE_AR_THRESH - 1, EYE_AR_THRESH}
\* one detected face: <<leftEAR, rightEAR>>
Faces == EARValues \X EARValues
\* what detector(gray, 0) can return: zero or more faces, in detection order
RectLists == UNION {[1..n -> Faces] : n \in 0..MaxFaces}

\* ------------------------------------------- emotion_detector.py: inputs

\* most frames the emotion loop reads
MaxFrames == 16
\* the sampling period N of the emotion sampler
SampleEvery == 15
\* most faces DeepFace.analyze reports for one frame
MaxResultFaces == 2

\* labels DeepFace reports (three of its seven)
Labels == {"happy", "sad", "neutral"}
\* one entry of the analysis result: a dict that holds the key
\* 'dominant_emotion', or one that lacks it
ResultEntries ==
    {[dominant_emotion |-> l] : l \in Labels} \cup {[region |-> "face"]}
\* what DeepFace.analyze can do with a frame: raise (no face found, or any
\* other Exception), or return a list of entries, possibly empty
ClassifierOutcomes ==
    {[raises |-> TRUE, result |-> <<>>]} \cup
    {[raises |-> FALSE, result |-> r] :
        r \in UNION {[1..n -> ResultEntries] : n \in 0..MaxResultFaces}}
\* no frame analysed yet
NoOutcome == [raises |-> FALSE, result |-> <<>>]

\* ------------------------------------------------- color_mapper.py: inputs

\* most entries of the list of emotions the script maps
MaxTests == 2
\* arguments of get_color_for_emotion: the seven labels, other strings, and
\* None (written "None")
EmotionInputs ==
    {"angry", "disgust", "fear", "happy", "sad", "surprise", "neutral",
     "unknown_emotion", "", "None"}

\* ------------------------------------------------ eye_aspect_ratio: inputs

\* landmark coordinates: a grid on which every distance between two points
\* is a whole number (0, 3, 4 or 5), so the Euclidean distance is exact
Points == {0, 3} \X {0, 4}
\* the six (x, y) landmarks of one eye, eye[1..6] for Python's eye[0..5]
Eyes == [1..6 -> Points]

\* ------------------------------------------------ screen_flasher.py: inputs

\* largest duration_sec, largest flashes_per_sec, and the longest a
\* time.sleep() call oversleeps (in clock ticks)
MaxDuration == 2
MaxFps == 2
MaxLag == 1
\* the clock counts ticks; one second is 2 * MaxFps ticks, so that
\* 1.0 / (flashes_per_sec * 2) is a whole number of ticks
TicksPerSec == 2 * MaxFps
DurationValues == (0 - 1)..MaxDuration
FpsValues == {f \in 1..MaxFps : MaxFps % f = 0}

VARIABLES
    pc,                \* position of the script
    alarm_sound_path,  \* "unbound" (never assigned), "alarm.wav" or "None"
    audio,             \* outcome of the mixer start-up: pending/ok/init_failed/load_failed
    mixer,             \* audio subsystem: "uninit", "init", "quit"
    cap,               \* capture device: "unopened", "open", "released"
    window,            \* display window: "none", "shown", "destroyed"
    frame_counter,
    alarm_on,
    ret,               \* result flag of the last cap.read()
    rects,             \* faces detected in the current frame
    i,                 \* index in rects of the next face of the for loop
    playing,           \* pygame.mixer.music is playing (looped)
    cmd,               \* sound command issued by the last step: none/play/stop
    lastCmd,           \* most recent sound command ever issued
    uncaught,          \* exception that ended the script, "none" if none
    exitBy,            \* how the loop ended: none/q/read_fail
    prev_counter,      \* frame_counter when the current frame was read
    prev_alarm,        \* alarm_on when the current frame was read
    run0,              \* history: length of the run of single-face closed-eye
                       \* frames since a frame boundary with frame_counter = 0
                       \* and alarm_on = False; -1 when not in such a run
    lowRun,            \* history: number of most recent captured frames that
                       \* were all low frames (capped at EYE_AR_CONSEC_FRAMES)
    predictor,         \* landmark predictor: "unloaded", "loaded", "failed"
    emo,               \* emotion_detector.py run as a script: its state
    mapper,            \* color_mapper.py run as a script: its state
    earcall,           \* one application of eye_aspect_ratio: eye and result
    flasher            \* a ScreenFlasher object and the flash() call on it

\* the state of detector.py
detector == <<pc, alarm_sound_path, audio, mixer, cap, window, frame_counter,
              alarm_on, ret, rects, i, playing, cmd, lastCmd, uncaught, exitBy,
              prev_counter, prev_alarm, run0, lowRun, predictor>>
\* the state of the repository's other scripts, which detector.py never touches
others == <<emo, mapper, earcall, flasher>>

vars == <<detector, others>>

startup == <<alarm_sound_path, audio, mixer, cap>>
history == <<prev_counter, prev_alarm, run0, lowRun>>

\* ------------------------------------------------------------------ helpers

\* detector.py:152  leftEAR < EYE_AR_THRESH and rightEAR < EYE_AR_THRESH
EyesClosed(face) == face[1] < EYE_AR_THRESH /\ face[2] < EYE_AR_THRESH

\* variant: the threshold frame itself does not count (off by one)
AlarmDue_strict(c) == c > EYE_AR_CONSEC_FRAMES

\* detector.py:157  frame_counter >= EYE_AR_CONSEC_FRAMES
AlarmDue(c) == c >= EYE_AR_CONSEC_FRAMES

\* variant: the `if not alarm_on` guard is missing
StartsAlarm_retrigger(c, a) == AlarmDue(c)

\* detector.py:159  if not alarm_on  (inside the AlarmDue branch)
StartsAlarm(c, a) == AlarmDue(c) /\ ~a

\* detector.py:173  if alarm_on  (open-eye branch)
StopsAlarm(a) == a

\* detector.py:162, 175  if alarm_sound_path  (None and unbound are falsy/absent)
SoundLoaded(path) == path = "alarm.wav"

\* a frame in which a face was detected and every detected face has both
\* eyes below the threshold
LowFrame(rs) == Len(rs) >= 1 /\ \A k \in 1..Len(rs) : EyesClosed(rs[k])
\* a frame with exactly one detected face, eyes closed
SingleLowFrame(rs) == Len(rs) = 1 /\ EyesClosed(rs[1])
\* a frame in which some detected face has an eye at or above the threshold
HasOpenFace(rs) == \E k \in 1..Len(rs) : ~EyesClosed(rs[k])

Min(a, b) == IF a <= b THEN a ELSE b

\* --------------------------------------------------------------------- Init

\* emotion_detector.py before its line 72
EmoStart ==
    [pc |-> "start", emotion |-> "unbound", outcome |-> NoOutcome,
     invoked |-> FALSE, raised |-> "none", text |-> "none", frames |-> 0,
     last_ok |-> "neutral"]

\* color_mapper.py before its line 38
MapperStart ==
    [pc |-> "start", test_emotions |-> <<>>, k |-> 1, emotion |-> "None",
     color |-> <<>>]

\* before eye_aspect_ratio is applied
EarStart == [pc |-> "start", eye |-> <<>>, ear |-> [num |-> 0, den |-> 1]]

\* screen_flasher.py before ScreenFlasher() is constructed
FlasherStart ==
    [pc |-> "start", visible |-> FALSE, duration_sec |-> 0,
     flashes_per_sec |-> 1, flash_interval |-> 0, now |-> 0, end_time |-> 0,
     winCmd |-> "none", lastWinCmd |-> "none"]

\* every script before its first statement (detector.py: before line 65)
Init ==
    /\ predictor = "unloaded"
    /\ emo = EmoStart
    /\ mapper = MapperStart
    /\ earcall = EarStart
    /\ flasher = FlasherStart
    /\ pc = "load_predictor"
    /\ alarm_sound_path = "unbound"
    /\ audio = "pending"
    /\ mixer = "uninit"
    /\ cap = "unopened"
    /\ window = "none"
    /\ frame_counter = 0
    /\ alarm_on = FALSE
    /\ ret = TRUE
    /\ rects = <<>>
    /\ i = 1
    /\ playing = FALSE
    /\ cmd = "none"
    /\ lastCmd = "none"
    /\ uncaught = "none"
    /\ exitBy = "none"
    /\ prev_counter = 0
    /\ prev_alarm = FALSE
    /\ run0 = 0
    /\ lowRun = 0

\* ----------------------------------------------------------------- start-up

\* detector.py:68-69  dlib.shape_predictor(predictor_path) succeeds
LoadPredictorOk ==
    /\ pc = "load_predictor"
    /\ predictor' = "loaded"
    /\ pc' = "init_audio"
    /\ cmd' = "none"
    /\ UNCHANGED others
    /\ UNCHANGED <<startup, window, frame_counter, alarm_on, ret, rects, i,
                   playing, lastCmd, uncaught, exitBy, history>>

\* variant: the handler prints its messages but does not call exit()
LoadPredictorFail_noExit ==
    /\ pc = "load_predictor"
    /\ predictor' = "failed"
    /\ pc' = "init_audio"
    /\ cmd' = "none"
    /\ UNCHANGED others
    /\ UNCHANGED <<startup, window, frame_counter, alarm_on, ret, rects, i,
                   playing, lastCmd, uncaught, exitBy, history>>

\* detector.py:70-74  RuntimeError: messages, then exit()
LoadPredictorFail ==
    /\ pc = "load_predictor"
    /\ predictor' = "failed"
    /\ pc' = "exited"
    /\ cmd' = "none"
    /\ UNCHANGED others
    /\ UNCHANGED <<startup, window, frame_counter, alarm_on, ret, rects, i,
                   playing, lastCmd, uncaught, exitBy, history>>

\* detector.py:83-87  mixer.init() and music.load() both succeed
InitAudioOk ==
    /\ pc = "init_audio"
    /\ mixer' = "init"
    /\ alarm_sound_path' = "alarm.wav"
    /\ audio' = "ok"
    /\ pc' = "open_capture"
    /\ cmd' = "none"
    /\ UNCHANGED <<predictor, others>>
    /\ UNCHANGED <<cap, window, frame_counter, alarm_on, ret, rects, i,
                   playing, lastCmd, uncaught, exitBy, history>>

\* detector.py:84-86, 88-93  mixer.init() succeeds, music.load() raises
\* pygame.error: the handler prints and sets alarm_sound_path = None
InitAudioLoadFail ==
    /\ pc = "init_audio"
    /\ mixer' = "init"
    /\ alarm_sound_path' = "None"
    /\ audio' = "load_failed"
    /\ pc' = "open_capture"
    /\ cmd' = "none"
    /\ UNCHANGED <<predictor, others>>
    /\ UNCHANGED <<cap, window, frame_counter, alarm_on, ret, rects, i,
                   playing, lastCmd, uncaught, exitBy, history>>

\* detector.py:84, 88-89  mixer.init() raises pygame.error before line 85 has
\* assigned alarm_sound_path; the handler's first print formats
\* {alarm_sound_path}, an unbound name: NameError, raised inside the handler
\* and caught by nothing, ends the script
InitAudioInitFail ==
    /\ pc = "init_audio"
    /\ alarm_sound_path = "unbound"
    /\ audio' = "init_failed"
    /\ uncaught' = "NameError"
    /\ pc' = "crashed"
    /\ cmd' = "none"
    /\ UNCHANGED <<predictor, others>>
    /\ UNCHANGED <<alarm_sound_path, mixer, cap, window, frame_counter,
                   alarm_on, ret, rects, i, playing, lastCmd, exitBy, history>>

\* detector.py:99-104  cv2.VideoCapture(0); frame_counter = 0; alarm_on = False
OpenCapture ==
    /\ pc = "open_capture"
    /\ cap' = "open"
    /\ frame_counter' = 0
    /\ alarm_on' = FALSE
    /\ pc' = "read"
    /\ cmd' = "none"
    /\ UNCHANGED <<predictor, others>>
    /\ UNCHANGED <<alarm_sound_path, audio, mixer, window, ret, rects, i,
                   playing, lastCmd, uncaught, exitBy, history>>

\* --------------------------------------------------------------- frame loop

\* variant: a frame without a face resets the counter
ReadFrameOk_resetNoFace ==
    /\ pc = "read"
    /\ ret' = TRUE
    /\ \E rs \in RectLists :
         /\ rects' = rs
         /\ frame_counter' = IF rs = <<>> THEN 0 ELSE frame_counter
    /\ i' = 1
    /\ pc' = "faces"
    /\ prev_counter' = frame_counter
    /\ prev_alarm' = alarm_on
    /\ cmd' = "none"
    /\ UNCHANGED <<predictor, others>>
    /\ UNCHANGED <<startup, window, alarm_on, playing, lastCmd,
                   uncaught, exitBy, run0, lowRun>>

\* detector.py:111-112, 119-125  cap.read() returns a frame (ret True); the
\* detector returns the frame's faces and the for loop starts at the first
ReadFrameOk ==
    /\ pc = "read"
    /\ ret' = TRUE
    /\ \E rs \in RectLists : rects' = rs
    /\ i' = 1
    /\ pc' = "faces"
    /\ prev_counter' = frame_counter
    /\ prev_alarm' = alarm_on
    /\ cmd' = "none"
    /\ UNCHANGED <<predictor, others>>
    /\ UNCHANGED <<startup, window, frame_counter, alarm_on, playing, lastCmd,
                   uncaught, exitBy, run0, lowRun>>

\* variant: a failed read skips the iteration (continue) instead of ending
\* the loop
ReadFrameFail_continue ==
    /\ pc = "read"
    /\ ret' = FALSE
    /\ pc' = "read"
    /\ cmd' = "none"
    /\ UNCHANGED <<predictor, others>>
    /\ UNCHANGED <<startup, window, frame_counter, alarm_on, rects, i, playing,
                   lastCmd, uncaught, exitBy, history>>

\* detector.py:111-114  cap.read() fails (ret False): warning, break
ReadFrameFail ==
    /\ pc = "read"
    /\ ret' = FALSE
    /\ exitBy' = "read_fail"
    /\ pc' = "cleanup"
    /\ cmd' = "none"
    /\ UNCHANGED <<predictor, others>>
    /\ UNCHANGED <<startup, window, frame_counter, alarm_on, rects, i, playing,
                   lastCmd, uncaught, history>>

\* variant: the else branch does not reset the counter
CounterAfter_noReset(face, c) == IF EyesClosed(face) THEN c + 1 ELSE c

\* detector.py:153 / 172  the counter after one face
CounterAfter(face, c) == IF EyesClosed(face) THEN c + 1 ELSE 0

\* variant: the open-eye branch resets the counter but not the flag
AlarmAfter_noReset(face, c1, a) ==
    IF EyesClosed(face)
    THEN (IF StartsAlarm(c1, a) THEN TRUE ELSE a)
    ELSE a

\* detector.py:157-160 / 173-174  alarm_on after one face, c1 the counter
\* after that face
AlarmAfter(face, c1, a) ==
    IF EyesClosed(face)
    THEN (IF StartsAlarm(c1, a) THEN TRUE ELSE a)
    ELSE (IF StopsAlarm(a) THEN FALSE ELSE a)

\* variant: the open-eye branch never calls music.stop()
SoundCmd_noStop(face, c1, a, path) ==
    IF EyesClosed(face)
    THEN (IF StartsAlarm(c1, a) /\ SoundLoaded(path) THEN "play" ELSE "none")
    ELSE "none"

\* detector.py:162-164 / 175-176  the sound command one face issues
SoundCmd(face, c1, a, path) ==
    IF EyesClosed(face)
    THEN (IF StartsAlarm(c1, a) /\ SoundLoaded(path) THEN "play" ELSE "none")
    ELSE (IF StopsAlarm(a) /\ SoundLoaded(path) THEN "stop" ELSE "none")

\* pygame.mixer.music.play(-1) loops until stop(): detector.py:164, 176
PlayingAfter(c, p) ==
    IF c = "play" THEN TRUE ELSE IF c = "stop" THEN FALSE ELSE p

\* detector.py:125-182  one pass of the body of `for rect in rects`
ProcessFace ==
    /\ pc = "faces"
    /\ i <= Len(rects)
    /\ EyesClosed(rects[i]) => frame_counter < MaxCounter
    /\ LET face == rects[i]
           c1 == CounterAfter(face, frame_counter)
           sc == SoundCmd(face, c1, alarm_on, alarm_sound_path)
       IN /\ frame_counter' = c1
          /\ alarm_on' = AlarmAfter(face, c1, alarm_on)
          /\ cmd' = sc
          /\ playing' = PlayingAfter(sc, playing)
          /\ lastCmd' = IF sc = "none" THEN lastCmd ELSE sc
    /\ i' = i + 1
    /\ UNCHANGED <<predictor, others>>
    /\ UNCHANGED <<pc, startup, window, ret, rects, uncaught, exitBy, history>>

\* history of the frames captured so far, updated when a frame is complete
Run0After(rs, r, c, a) ==
    IF SingleLowFrame(rs) /\ r >= 0 THEN r + 1
    ELSE IF c = 0 /\ ~a THEN 0 ELSE -1

LowRunAfter(rs, l) ==
    IF LowFrame(rs) THEN Min(l + 1, EYE_AR_CONSEC_FRAMES) ELSE 0

\* all faces of the current frame have been processed
EndOfFrame == pc = "faces" /\ i = Len(rects) + 1

\* detector.py:185-190  imshow, waitKey: a key other than q, next iteration
ShowFrameContinue ==
    /\ EndOfFrame
    /\ window' = "shown"
    /\ run0' = Run0After(rects, run0, frame_counter, alarm_on)
    /\ lowRun' = LowRunAfter(rects, lowRun)
    /\ pc' = "read"
    /\ cmd' = "none"
    /\ UNCHANGED <<predictor, others>>
    /\ UNCHANGED <<startup, frame_counter, alarm_on, ret, rects, i, playing,
                   lastCmd, uncaught, exitBy, prev_counter, prev_alarm>>

\* detector.py:185-190  imshow, waitKey returns ord("q"): break
ShowFrameQuit ==
    /\ EndOfFrame
    /\ window' = "shown"
    /\ run0' = Run0After(rects, run0, frame_counter, alarm_on)
    /\ lowRun' = LowRunAfter(rects, lowRun)
    /\ exitBy' = "q"
    /\ pc' = "cleanup"
    /\ cmd' = "none"
    /\ UNCHANGED <<predictor, others>>
    /\ UNCHANGED <<startup, frame_counter, alarm_on, ret, rects, i, playing,
                   lastCmd, uncaught, prev_counter, prev_alarm>>

\* detector.py:119-186  a call made while a frame is processed (cvtColor,
\* detector, predictor, convexHull, putText, imshow, ...) raises; the loop has
\* no try/except/finally, so the exception ends the script where it is
FrameError ==
    /\ pc = "faces"
    /\ uncaught' = "cv2.error"
    /\ pc' = "crashed"
    /\ cmd' = "none"
    /\ UNCHANGED <<predictor, others>>
    /\ UNCHANGED <<startup, window, frame_counter, alarm_on, ret, rects, i,
                   playing, lastCmd, exitBy, history>>

\* detector.py:193-196  destroyAllWindows, cap.release, pygame.mixer.quit
\* (quitting the mixer ends any playback)
Cleanup ==
    /\ pc = "cleanup"
    /\ window' = "destroyed"
    /\ cap' = "released"
    /\ mixer' = "quit"
    /\ playing' = FALSE
    /\ pc' = "done"
    /\ cmd' = "none"
    /\ UNCHANGED <<predictor, others>>
    /\ UNCHANGED <<alarm_sound_path, audio, frame_counter, alarm_on, ret,
                   rects, i, lastCmd, uncaught, exitBy, history>>

Next ==
    \/ LoadPredictorOk
    \/ LoadPredictorFail
    \/ InitAudioOk
    \/ InitAudioLoadFail
    \/ InitAudioInitFail
    \/ OpenCapture
    \/ ReadFrameOk
    \/ ReadFrameFail
    \/ ProcessFace
    \/ ShowFrameContinue
    \/ ShowFrameQuit
    \/ FrameError
    \/ Cleanup

Spec == Init /\ [][Next]_vars

\* positions inside the main loop
InLoop == pc \in {"read", "faces"}
\* between two iterations of the main loop
FrameBoundary == pc = "read"

TypeOK ==
    /\ pc \in {"load_predictor", "init_audio", "open_capture", "read", "faces",
               "cleanup", "done", "exited", "crashed"}
    /\ alarm_sound_path \in {"unbound", "alarm.wav", "None"}
    /\ audio \in {"pending", "ok", "init_failed", "load_failed"}
    /\ mixer \in {"uninit", "init", "quit"}
    /\ cap \in {"unopened", "open", "released"}
    /\ window \in {"none", "shown", "destroyed"}
    /\ frame_counter \in 0..MaxCounter
    /\ alarm_on \in BOOLEAN
    /\ ret \in BOOLEAN
    /\ rects \in RectLists
    /\ i \in 1..(MaxFaces + 1)
    /\ playing \in BOOLEAN
    /\ cmd \in {"none", "play", "stop"}
    /\ lastCmd \in {"none", "play", "stop"}
    /\ uncaught \in {"none", "NameError", "cv2.error"}
    /\ exitBy \in {"none", "q", "read_fail"}
    /\ prev_counter \in 0..MaxCounter
    /\ prev_alarm \in BOOLEAN
    /\ run0 \in -1..MaxCounter
    /\ lowRun \in 0..EYE_AR_CONSEC_FRAMES
    /\ predictor \in {"unloaded", "loaded", "failed"}

\* the script has ended, one way or another
Terminated == pc \in {"done", "exited", "crashed"}

\* ------------------------------------------------------------------- claims

\* C1: from frame_counter = 0 and alarm_on = False, after a run of
\* consecutive frames that each hold one face with both eyes below the
\* threshold, alarm_on is False after each of the first 34 frames and True
\* from the 35th on.
C1_AlarmOnExactly35th ==
    (FrameBoundary /\ run0 >= 1) =>
        (alarm_on <=> run0 >= EYE_AR_CONSEC_FRAMES)

\* the 35th frame of such a run has just been processed
C1_Witness ==
    FrameBoundary /\ run0 = EYE_AR_CONSEC_FRAMES /\ alarm_on /\ prev_alarm = FALSE

\* C2 (as claimed): whatever the number of faces per frame, alarm_on is True
\* after a frame only if the 35 most recent captured frames were all
\* both-eyes-below-threshold frames.
C2_AlarmOnlyAfter35LowFrames ==
    (FrameBoundary /\ alarm_on) => lowRun >= EYE_AR_CONSEC_FRAMES

\* C3 (as claimed): a frame in which a detected face has an eye at or above
\* the threshold ends with alarm_on = False, frame_counter = 0 and the sound
\* stopped.
C3_OpenFaceFrameResets ==
    (EndOfFrame /\ HasOpenFace(rects)) =>
        (frame_counter = 0 /\ ~alarm_on /\ ~playing)

\* C4: between any two face-processing steps of the main loop, alarm_on is
\* True iff frame_counter >= EYE_AR_CONSEC_FRAMES, with or without sound.
C4_AlarmIffCounterReached ==
    InLoop => (alarm_on <=> frame_counter >= EYE_AR_CONSEC_FRAMES)

\* between the two faces of a frame, alarm on, no sound loaded
C4_Witness ==
    /\ pc = "faces" /\ Len(rects) = 2 /\ i = 2
    /\ alarm_on /\ frame_counter > EYE_AR_CONSEC_FRAMES
    /\ alarm_sound_path = "None"

\* C5 (as claimed): frame_counter is never negative, and every captured
\* frame either increments it (when the frame is a both-eyes-low frame) or
\* resets it to zero (every other frame).
C5_CounterIncrementedOrReset ==
    /\ frame_counter >= 0
    /\ EndOfFrame =>
          IF LowFrame(rects)
          THEN frame_counter = prev_counter + 1
          ELSE frame_counter = 0

\* C6: music.play is issued only by a step that turns alarm_on from False to
\* True, and the sound commands alternate play, stop, play, ... starting
\* with play.
C6_PlayOncePerEpisode ==
    [][ /\ cmd' = "play" => (~alarm_on /\ alarm_on' /\ lastCmd # "play")
        /\ cmd' = "stop" => (alarm_on /\ ~alarm_on' /\ lastCmd = "play") ]_vars

\* the alarm is on and sounding, and a further closed-eye frame went by
\* without another play
C6_Witness ==
    /\ FrameBoundary /\ alarm_on /\ prev_alarm /\ playing
    /\ lastCmd = "play" /\ cmd = "none"
    /\ frame_counter > EYE_AR_CONSEC_FRAMES

\* C7: with the sound loaded, at every frame boundary the sound is playing
\* iff alarm_on is True.
C7_PlayingIffAlarm ==
    (FrameBoundary /\ SoundLoaded(alarm_sound_path)) => (playing <=> alarm_on)

\* the alarm sounded and has been stopped again
C7_Witness ==
    /\ FrameBoundary /\ SoundLoaded(alarm_sound_path)
    /\ ~alarm_on /\ ~playing /\ lastCmd = "stop"

\* C8 (as claimed): a failure to initialise or to load the alarm sound is not
\* fatal: it leaves alarm_sound_path = None and the script running.
C8_AudioFailureNonFatal ==
    audio \in {"init_failed", "load_failed"} =>
        (alarm_sound_path = "None" /\ uncaught # "NameError")

\* C9 (as claimed): however the run ends, the capture device and the audio
\* subsystem are not left held.
C9_CleanupOnEveryExit ==
    Terminated => (cap # "open" /\ mixer # "init")

\* C10: a failed read ends the loop in that iteration, with no detection and
\* frame_counter and alarm_on untouched, and the next step is the cleanup.
C10_ReadFailureExitsToCleanup ==
    [][ /\ (pc = "read" /\ ~ret') =>
             /\ pc' = "cleanup"
             /\ UNCHANGED <<frame_counter, alarm_on, rects, i, playing, lastCmd>>
             /\ cmd' = "none"
        /\ pc = "cleanup" =>
             /\ pc' = "done"
             /\ cap' = "released" /\ mixer' = "quit" /\ window' = "destroyed"
             /\ UNCHANGED <<frame_counter, alarm_on>> ]_vars

\* a read failed while the alarm was on, and the cleanup has run
C10_Witness ==
    /\ pc = "done" /\ exitBy = "read_fail" /\ ~ret
    /\ alarm_on /\ frame_counter >= EYE_AR_CONSEC_FRAMES
    /\ cap = "released" /\ mixer = "quit"

\* ------------------------------------------------------ emotion_detector.py

\* emotion_detector.py:45-58  the body of the try block: the value it
\* returns, or the exception it raises
AnalyzeTry(o) ==
    IF o.raises
    THEN [exc |-> "ValueError", value |-> "None"]
    ELSE IF o.result # <<>> /\ Len(o.result) > 0
         THEN IF "dominant_emotion" \in DOMAIN o.result[1]
              THEN [exc |-> "none", value |-> o.result[1].dominant_emotion]
              ELSE [exc |-> "KeyError", value |-> "None"]
         ELSE [exc |-> "none", value |-> "None"]

\* variant: the handler catches the classifier's ValueError only
AnalyzeFrame_narrowExcept(o) ==
    LET t == AnalyzeTry(o)
    IN IF t.exc = "ValueError" THEN [exc |-> "none", value |-> "None"] ELSE t

\* emotion_detector.py:30-64  analyze_frame: `except Exception` turns every
\* exception of the try block into the return value None
AnalyzeFrame(o) ==
    LET t == AnalyzeTry(o)
    IN IF t.exc # "none" THEN [exc |-> "none", value |-> "None"] ELSE t

\* emotion_detector.py:86-91  the text drawn on the frame (`if emotion:`)
EmotionText(e) == IF e # "None" /\ e # "" THEN <<"Emotion", e>> ELSE <<"Emotion", "N/A">>

\* emotion_detector.py:72-73  detector = EmotionDetector(); cap = VideoCapture(0)
EmoSetup ==
    /\ emo.pc = "start"
    /\ emo' = [emo EXCEPT !.pc = "read"]
    /\ UNCHANGED <<detector, mapper, earcall, flasher>>

\* emotion_detector.py:78-83  a frame is read and handed to analyze_frame,
\* whose result is assigned to emotion; an exception leaving analyze_frame
\* would end the script
EmoReadAnalyze ==
    /\ emo.pc = "read"
    /\ emo.frames < MaxFrames
    /\ \E o \in ClassifierOutcomes :
         LET r == AnalyzeFrame(o)
         IN emo' = [emo EXCEPT
                      !.pc = IF r.exc = "none" THEN "show" ELSE "crashed",
                      !.outcome = o,
                      !.invoked = TRUE,
                      !.raised = r.exc,
                      !.emotion = IF r.exc = "none" THEN r.value ELSE @,
                      !.frames = @ + 1,
                      !.last_ok = IF r.exc = "none" /\ r.value # "None"
                                  THEN r.value ELSE @]
    /\ UNCHANGED <<detector, mapper, earcall, flasher>>

\* emotion_detector.py:78-80  cap.read() fails: break
EmoReadFail ==
    /\ emo.pc = "read"
    /\ emo' = [emo EXCEPT !.pc = "cleanup", !.invoked = FALSE]
    /\ UNCHANGED <<detector, mapper, earcall, flasher>>

\* emotion_detector.py:86-96  putText, imshow, waitKey: a key other than q
EmoShowContinue ==
    /\ emo.pc = "show"
    /\ emo' = [emo EXCEPT !.pc = "read", !.invoked = FALSE,
                          !.text = EmotionText(emo.emotion)]
    /\ UNCHANGED <<detector, mapper, earcall, flasher>>

\* emotion_detector.py:86-96  putText, imshow, waitKey returns ord('q'): break
EmoShowQuit ==
    /\ emo.pc = "show"
    /\ emo' = [emo EXCEPT !.pc = "cleanup", !.invoked = FALSE,
                          !.text = EmotionText(emo.emotion)]
    /\ UNCHANGED <<detector, mapper, earcall, flasher>>

\* emotion_detector.py:98-99  cap.release(); destroyAllWindows()
EmoCleanup ==
    /\ emo.pc = "cleanup"
    /\ emo' = [emo EXCEPT !.pc = "done", !.invoked = FALSE]
    /\ UNCHANGED <<detector, mapper, earcall, flasher>>

NextEmotion ==
    \/ EmoSetup
    \/ EmoReadAnalyze
    \/ EmoReadFail
    \/ EmoShowContinue
    \/ EmoShowQuit
    \/ EmoCleanup

SpecEmotion == Init /\ [][NextEmotion]_vars

\* analyze_frame has just returned for the frame emo.outcome
EmoAnalysed == emo.pc \in {"show", "crashed"}

\* ---------------------------------------------------------- color_mapper.py

\* color_mapper.py:20-28
color_map ==
    [angry |-> <<255, 0, 0>>, disgust |-> <<0, 128, 0>>,
     fear |-> <<128, 0, 128>>, happy |-> <<255, 255, 0>>,
     sad |-> <<0, 0, 255>>, surprise |-> <<255, 165, 0>>,
     neutral |-> <<255, 255, 255>>]

\* variant: color_map[emotion] instead of .get(): a missing key raises
get_color_for_emotion_subscript(emotion) ==
    IF emotion \in DOMAIN color_map THEN color_map[emotion] ELSE <<"KeyError">>

\* color_mapper.py:7-33  color_map.get(emotion, (200, 200, 200))
get_color_for_emotion(emotion) ==
    IF emotion \in DOMAIN color_map THEN color_map[emotion]
    ELSE <<200, 200, 200>>

\* color_mapper.py:38  the list of emotions to map
MapperSetup ==
    /\ mapper.pc = "start"
    /\ \E t \in UNION {[1..n -> EmotionInputs] : n \in 0..MaxTests} :
         mapper' = [mapper EXCEPT !.pc = "loop", !.test_emotions = t, !.k = 1]
    /\ UNCHANGED <<detector, emo, earcall, flasher>>

\* color_mapper.py:41-43  one pass of `for emotion in test_emotions`
MapperCall ==
    /\ mapper.pc = "loop"
    /\ mapper.k <= Len(mapper.test_emotions)
    /\ LET e == mapper.test_emotions[mapper.k]
       IN mapper' = [mapper EXCEPT !.emotion = e,
                                   !.color = get_color_for_emotion(e),
                                   !.k = @ + 1]
    /\ UNCHANGED <<detector, emo, earcall, flasher>>

\* color_mapper.py:41  the list is exhausted
MapperDone ==
    /\ mapper.pc = "loop"
    /\ mapper.k > Len(mapper.test_emotions)
    /\ mapper' = [mapper EXCEPT !.pc = "done"]
    /\ UNCHANGED <<detector, emo, earcall, flasher>>

NextColor == MapperSetup \/ MapperCall \/ MapperDone

SpecColor == Init /\ [][NextColor]_vars

\* get_color_for_emotion has been applied to mapper.emotion
MapperCalled == mapper.pc \in {"loop", "done"} /\ mapper.k > 1

\* --------------------------------------------- detector.py: eye_aspect_ratio

\* the whole number whose square is n
ISqrt(n) == CHOOSE r \in 0..n : r * r = n

\* scipy's dist.euclidean on two (x, y) points
Euclidean(p, q) ==
    ISqrt((p[1] - q[1]) * (p[1] - q[1]) + (p[2] - q[2]) * (p[2] - q[2]))

\* variant: the second vertical pair is taken as eye[2], eye[5]
eye_aspect_ratio_wrongPair(eye) ==
    LET A == Euclidean(eye[2], eye[6])
        B == Euclidean(eye[3], eye[6])
        C == Euclidean(eye[1], eye[4])
    IN [num |-> A + B, den |-> 2 * C]

\* detector.py:38-56  ear = (A + B) / (2.0 * C), kept as the quotient
\* num / den that the float division evaluates
eye_aspect_ratio(eye) ==
    LET A == Euclidean(eye[2], eye[6])
        B == Euclidean(eye[3], eye[5])
        C == Euclidean(eye[1], eye[4])
    IN [num |-> A + B, den |-> 2 * C]

\* detector.py:139-140  eye_aspect_ratio applied to one eye
EarCall ==
    /\ earcall.pc = "start"
    /\ \E e \in Eyes :
         earcall' = [pc |-> "called", eye |-> e, ear |-> eye_aspect_ratio(e)]
    /\ UNCHANGED <<detector, emo, mapper, flasher>>

NextEar == EarCall

SpecEar == Init /\ [][NextEar]_vars

\* ------------------------------------------------------- screen_flasher.py

\* screen_flasher.py:15-31  __init__: the window is created, then withdrawn
FlasherInit ==
    /\ flasher.pc = "start"
    /\ flasher' = [flasher EXCEPT !.pc = "idle", !.visible = FALSE,
                                  !.winCmd = "hide"]
    /\ UNCHANGED <<detector, emo, mapper, earcall>>

\* screen_flasher.py:33-43  flash(duration_sec, flashes_per_sec) is called:
\* flash_interval and end_time are computed (the clock is read as 0)
FlashCall ==
    /\ flasher.pc = "idle"
    /\ \E d \in DurationValues, f \in FpsValues :
         flasher' = [flasher EXCEPT
                       !.pc = "test",
                       !.duration_sec = d,
                       !.flashes_per_sec = f,
                       !.flash_interval = TicksPerSec \div (f * 2),
                       !.now = 0,
                       !.end_time = 0 + d * TicksPerSec,
                       !.winCmd = "none",
                       !.lastWinCmd = "none"]
    /\ UNCHANGED <<detector, emo, mapper, earcall>>

\* variant: the loop test is time.time() <= end_time
FlashShow_le ==
    /\ flasher.pc = "test"
    /\ flasher.now <= flasher.end_time
    /\ \E lag \in 0..MaxLag :
         flasher' = [flasher EXCEPT
                       !.pc = "on",
                       !.visible = TRUE,
                       !.winCmd = "show",
                       !.lastWinCmd = "show",
                       !.now = @ + flasher.flash_interval + lag]
    /\ UNCHANGED <<detector, emo, mapper, earcall>>

\* screen_flasher.py:45-50  the loop test holds: deiconify, configure, update,
\* sleep(flash_interval)
FlashShow ==
    /\ flasher.pc = "test"
    /\ flasher.now < flasher.end_time
    /\ \E lag \in 0..MaxLag :
         flasher' = [flasher EXCEPT
                       !.pc = "on",
                       !.visible = TRUE,
                       !.winCmd = "show",
                       !.lastWinCmd = "show",
                       !.now = @ + flasher.flash_interval + lag]
    /\ UNCHANGED <<detector, emo, mapper, earcall>>

\* screen_flasher.py:52-55  withdraw, update, sleep(flash_interval)
FlashHide ==
    /\ flasher.pc = "on"
    /\ \E lag \in 0..MaxLag :
         flasher' = [flasher EXCEPT
                       !.pc = "test",
                       !.visible = FALSE,
                       !.winCmd = "hide",
                       !.lastWinCmd = "hide",
                       !.now = @ + flasher.flash_interval + lag]
    /\ UNCHANGED <<detector, emo, mapper, earcall>>

\* screen_flasher.py:45, 57  the loop test fails: flash() returns
FlashReturn ==
    /\ flasher.pc = "test"
    /\ ~(flasher.now < flasher.end_time)
    /\ flasher' = [flasher EXCEPT !.pc = "returned", !.winCmd = "none"]
    /\ UNCHANGED <<detector, emo, mapper, earcall>>

\* the caller goes on after flash() has returned
FlashResume ==
    /\ flasher.pc = "returned"
    /\ flasher' = [flasher EXCEPT !.pc = "idle"]
    /\ UNCHANGED <<detector, emo, mapper, earcall>>

\* screen_flasher.py:59-63  close(): the window is destroyed
FlasherClose ==
    /\ flasher.pc = "idle"
    /\ flasher' = [flasher EXCEPT !.pc = "closed", !.visible = FALSE,
                                  !.winCmd = "none"]
    /\ UNCHANGED <<detector, emo, mapper, earcall>>

NextFlasher ==
    \/ FlasherInit
    \/ FlashCall
    \/ FlashShow
    \/ FlashHide
    \/ FlashReturn
    \/ FlashResume
    \/ FlasherClose

\* a running flash() keeps running: the loop is sequential code whose sleeps
\* return
FlashRuns == FlashShow \/ FlashHide \/ FlashReturn

SpecFlasher == Init /\ [][NextFlasher]_vars /\ WF_vars(FlashRuns)

\* flash() is executing
InFlash == flasher.pc \in {"test", "on"}

\* C11: when the landmark predictor fails to load, the script ends before the
\* main loop: the capture device is never opened, no frame is processed and
\* no sound command is issued.
C11_PredictorFailureAborts ==
    predictor = "failed" =>
        /\ pc = "exited"
        /\ cap = "unopened" /\ mixer = "uninit" /\ window = "none"
        /\ rects = <<>> /\ prev_counter = 0 /\ lowRun = 0
        /\ cmd = "none" /\ lastCmd = "none" /\ ~playing

\* the load has failed and the script has exited
C11_Witness == predictor = "failed" /\ pc = "exited" /\ cap = "unopened"

\* C12: analyze_frame never lets an error out; it returns the first entry's
\* dominant_emotion when the classifier returns a non-empty result whose first
\* entry has one, and None when the classifier raises, returns an empty
\* result, or returns a first entry without a dominant emotion.
C12_AnalyzeFrameTotal ==
    EmoAnalysed =>
        /\ emo.raised = "none"
        /\ emo.pc = "show"
        /\ LET o == emo.outcome
           IN IF /\ ~o.raises
                 /\ Len(o.result) >= 1
                 /\ "dominant_emotion" \in DOMAIN o.result[1]
              THEN emo.emotion = o.result[1].dominant_emotion
              ELSE emo.emotion = "None"

\* the classifier returned two entries, the first without a dominant emotion,
\* and analyze_frame returned None
C12_Witness ==
    /\ emo.pc = "show" /\ ~emo.outcome.raises
    /\ Len(emo.outcome.result) = 2
    /\ "dominant_emotion" \notin DOMAIN emo.outcome.result[1]
    /\ "dominant_emotion" \in DOMAIN emo.outcome.result[2]
    /\ emo.emotion = "None"

\* C13 (as claimed): whenever analyze_frame returns None, the emotion label
\* the frame loop holds is still the most recent successful classification
\* (initially "neutral").
C13_LastEmotionKept ==
    (emo.pc = "show" /\ AnalyzeFrame(emo.outcome).value = "None") =>
        emo.emotion = emo.last_ok

\* C14 (as claimed): on a frame whose index is not a multiple of 15 the
\* classifier is not invoked and the emotion label is unchanged.
C14_SampledEvery15th ==
    [][ (emo.pc = "read" /\ emo'.pc \in {"show", "crashed"}
           /\ emo.frames % SampleEvery # 0) =>
        (~emo'.invoked /\ emo'.emotion = emo.emotion) ]_vars

\* C15: get_color_for_emotion maps each of the seven labels to its fixed RGB
\* triple (happy to (255, 255, 0)) and every other string, and None, to the
\* default (200, 200, 200); it never raises.
C15_ColorMapping ==
    MapperCalled =>
        LET e == mapper.emotion
            c == mapper.color
        IN /\ e = "angry" => c = <<255, 0, 0>>
           /\ e = "disgust" => c = <<0, 128, 0>>
           /\ e = "fear" => c = <<128, 0, 128>>
           /\ e = "happy" => c = <<255, 255, 0>>
           /\ e = "sad" => c = <<0, 0, 255>>
           /\ e = "surprise" => c = <<255, 165, 0>>
           /\ e = "neutral" => c = <<255, 255, 255>>
           /\ e \notin {"angry", "disgust", "fear", "happy", "sad", "surprise",
                        "neutral"} => c = <<200, 200, 200>>

\* happy, then None, have been mapped
C15_Witness ==
    /\ mapper.pc = "done"
    /\ mapper.test_emotions = <<"happy", "None">>
    /\ mapper.emotion = "None" /\ mapper.color = <<200, 200, 200>>

\* C16: for an eye with horizontal distance d3 = |eye[0]-eye[3]| > 0,
\* eye_aspect_ratio returns (d1 + d2) / (2 * d3), d1 = |eye[1]-eye[5]| and
\* d2 = |eye[2]-eye[4]| (Python indices).
C16_EyeAspectRatio ==
    earcall.pc = "called" =>
        LET eye == earcall.eye
            d1 == Euclidean(eye[2], eye[6])
            d2 == Euclidean(eye[3], eye[5])
            d3 == Euclidean(eye[1], eye[4])
        IN d3 > 0 =>
             /\ earcall.ear.den > 0
             /\ earcall.ear.num * (2 * d3) = (d1 + d2) * earcall.ear.den

\* an eye with d1 = 4, d2 = 3, d3 = 5: EAR = 7/10
C16_Witness ==
    /\ earcall.pc = "called"
    /\ Euclidean(earcall.eye[2], earcall.eye[6]) = 4
    /\ Euclidean(earcall.eye[3], earcall.eye[5]) = 3
    /\ Euclidean(earcall.eye[1], earcall.eye[4]) = 5
    /\ earcall.ear = [num |-> 7, den |-> 10]

\* C17: the overlay is hidden whenever flash() is not executing (after
\* construction, after flash() returns); during flash() show and hide
\* alternate, starting with show and ending with hide, each followed by a
\* sleep of the same flash_interval; the loop is entered only while the clock
\* is before end_time, so flash() shows nothing when duration_sec <= 0; and a
\* running flash() returns.
C17_FlasherHiddenOutsideFlash ==
    /\ [](flasher.pc \in {"idle", "returned", "closed"} => ~flasher.visible)
    /\ [](flasher.pc = "returned" =>
            /\ flasher.lastWinCmd \in {"none", "hide"}
            /\ flasher.now >= flasher.end_time
            /\ flasher.duration_sec <= 0 => flasher.lastWinCmd = "none")
    /\ [][ /\ flasher'.winCmd = "show" =>
                /\ flasher.lastWinCmd \in {"none", "hide"}
                /\ flasher.now < flasher.end_time
                /\ flasher'.now >= flasher.now + flasher.flash_interval
           /\ (InFlash /\ flasher'.winCmd = "hide") =>
                /\ flasher.lastWinCmd = "show"
                /\ flasher'.now >= flasher.now + flasher.flash_interval
           /\ (flasher.pc = "test" /\ flasher.now >= flasher.end_time) =>
                flasher'.pc = "returned" ]_vars
    /\ (InFlash ~> flasher.pc = "returned")

\* flash() has returned after showing and hiding the window
C17_Witness ==
    /\ flasher.pc = "returned" /\ flasher.duration_sec > 0
    /\ flasher.lastWinCmd = "hide" /\ ~flasher.visible
    /\ flasher.now >= flasher.end_time

LastOpen(rs) ==
    CHOOSE k \in 1..Len(rs) :
        /\ ~EyesClosed(rs[k])
        /\ \A m \in (k + 1)..Len(rs) : EyesClosed(rs[m])

====
